---- MODULE Spec2Model ----
(***************************************************************************)
(* A model of the cartopy tutorial notebooks as they run in a Jupyter      *)
(* kernel.  One behaviour is one kernel session of one notebook: the       *)
(* reader runs code cells (and the worked solutions of the exercises) in   *)
(* any order, each cell runs its statements in order until one raises, and *)
(* the names it bound stay in the kernel's namespace.                      *)
(*                                                                         *)
(*   book   the notebook the session runs                                  *)
(*   files  the resource files that exist on disk (not part of the         *)
(*          notebooks, so any subset may be there)                         *)
(*   ns     the kernel's global namespace, name -> value                   *)
(*   gca    pyplot's current axes                                          *)
(*   out    the library calls issued by the cell that ran last             *)
(*   err    the exception that ended the cell that ran last, or "none"     *)
(*   last   the cell that ran last                                         *)
(*                                                                         *)
(* Numbers: angles (central longitudes, city coordinates) are fixed-point  *)
(* in units of 1e-4 degree; extents are kept as the integers written in    *)
(* the source.                                                             *)
(***************************************************************************)
EXTENDS Integers, Sequences, FiniteSets

VARIABLES book, files, ns, gca, out, err, last

vars == <<book, files, ns, gca, out, err, last>>

---------------------------------------------------------------------------
(* Values *)

Undef == [t |-> "undef"]
NoArg == [t |-> "absent"]
Str(x) == [t |-> "str", s |-> x]
List(v) == [t |-> "list", xs |-> v]
Module(m) == [t |-> "module", s |-> m]
Function(f) == [t |-> "function", s |-> f]
Class(c) == [t |-> "class", s |-> c]
Image(path) == [t |-> "image", file |-> path]
Figure == [t |-> "figure"]

\* A coordinate reference system: its class and its configuration.
Crs(class, lon, lat) ==
    [t |-> "crs", class |-> class, central_longitude |-> lon, central_latitude |-> lat]

PlateCarree(lon) == Crs("PlateCarree", lon, 0)
Robinson(lon) == Crs("Robinson", lon, 0)
Geodetic == Crs("Geodetic", 0, 0)
Stereographic(lon, lat) == Crs("Stereographic", lon, lat)

\* The n-th axes created by the running cell, drawing in `projection`.
Axes(projection, n) == [t |-> "axes", projection |-> projection, n |-> n]

\* A call of a library function: the axes it draws on and its arguments.
Call(fn, ax) ==
    [fn |-> fn, ax |-> ax, data |-> NoArg, extent |-> NoArg, transform |-> NoArg,
     origin |-> NoArg, label |-> NoArg, style |-> {}]

XY(lons, lats) == [t |-> "xy", lons |-> lons, lats |-> lats]

---------------------------------------------------------------------------
(* The kernel: how a cell's statements run *)

Names ==
    {"fname", "iris", "cube", "ccrs", "iplt", "plt", "october_cube", "ax1", "ax2",
     "extent", "rob", "ax", "img", "places", "destinations", "lons", "lats",
     "fig", "pc_180", "fiona", "sgeom", "shpfile", "geometries", "new_york",
     "honolulu", "new_york_to_honolulu", "cartopy", "ny_stereo", "HigherResStereo"}

\* The state a cell starts in: the session's namespace, no output yet.
Start == [ns |-> ns, gca |-> gca, out |-> <<>>, err |-> "none", k |-> 0]

Ok(s) == s.err = "none"

\* A statement that reads a name the namespace does not bind raises NameError;
\* once a statement has raised, the rest of the cell does not run.
Need(s, xs) ==
    IF Ok(s) /\ \E x \in xs : s.ns[x].t = "undef"
    THEN [s EXCEPT !.err = "NameError"]
    ELSE s

Raise(s, cond, e) == IF Ok(s) /\ cond THEN [s EXCEPT !.err = e] ELSE s

Bind(s, x, v) == IF Ok(s) THEN [s EXCEPT !.ns[x] = v] ELSE s

Emit(s, c) == IF Ok(s) THEN [s EXCEPT !.out = Append(@, c)] ELSE s

\* `x = <expression reading xs>`
Assign(s, xs, x, v) == Bind(Need(s, xs), x, v)

\* `<call reading xs>`
Do(s, xs, c) == Emit(Need(s, xs), c)

\* A call on pyplot's current axes, or on the axes bound to a name.
OnGca(s, fn) == Call(fn, s.gca)
On(s, a, fn) == Call(fn, s.ns[a])

---------------------------------------------------------------------------
(* Library calls the cells make *)

\* plt.figure(): a new current figure, which has no axes yet.
plt_figure(s) ==
    LET a == Do(s, {"plt"}, Call("figure", NoArg))
    IN  IF Ok(a) THEN [a EXCEPT !.gca = NoArg] ELSE a

\* plt.axes(projection=p) (also plt.subplot, plt.subplots): a new axes, made
\* current.
new_axes(s, xs, fn, p) ==
    LET a == Need(s, {"plt"} \cup xs)
        A == Axes(p, a.k + 1)
        b == Emit(a, Call(fn, A))
    IN  IF Ok(b) THEN [b EXCEPT !.gca = A, !.k = a.k + 1] ELSE b

\* x = plt.axes(projection=p)
plt_axes(s, xs, x, fn, p) ==
    LET a == new_axes(s, xs, fn, p)
    IN  Bind(a, x, a.gca)

\* The files plt.imread can decode.
IsImage(path) ==
    path \in {"../resources/640px-Around_the_World_in_Eighty_Days_map.png",
              "../../resources/640px-Around_the_World_in_Eighty_Days_map.png",
              "../resources/natural-earth-2/global.png"}

\* x = plt.imread(path): raises when the file is missing or is no image.
plt_imread(s, xs, x, path) ==
    LET a == Need(s, {"plt"} \cup xs)
        b == Raise(a, path \notin files, "FileNotFoundError")
        c == Raise(b, ~IsImage(path), "UnidentifiedImageError")
    IN  Bind(Emit(c, [Call("imread", NoArg) EXCEPT !.data = Str(path)]), x, Image(path))

plt_tight_layout(s) == Do(s, {"plt"}, Call("tight_layout", NoArg))
plt_show(s) == Do(s, {"plt"}, Call("show", NoArg))
plt_title(s, title) == Do(s, {"plt"}, [OnGca(s, "title") EXCEPT !.label = Str(title)])

coastlines(s, a) == Do(s, {a}, On(s, a, "coastlines"))
set_global(s, a) == Do(s, {a}, On(s, a, "set_global"))
stock_img(s, a) == Do(s, {a}, On(s, a, "stock_img"))
gridlines(s, a, style) == Do(s, {a}, [On(s, a, "gridlines") EXCEPT !.style = style])

GrayDashed == {<<"color", "gray">>, <<"linestyle", "--">>}

imshow(s, a, xs, img, extent, transform, origin) ==
    Do(s, {a} \cup xs,
       [On(s, a, "imshow") EXCEPT !.data = img, !.extent = extent,
                                  !.transform = transform, !.origin = Str(origin)])

\* ax.plot(lons, lats, transform=..., label=..., **style)
plot(s, a, xs, lons, lats, transform, label, style) ==
    Do(s, {a} \cup xs,
       [On(s, a, "plot") EXCEPT !.data = XY(lons, lats), !.transform = transform,
                                !.label = label, !.style = style])

\* iplt.pcolormesh(cube), iplt.contourf(cube): drawn on the current axes; the
\* call names no coordinate system (the cube carries its own).
iplt_draw(s, fn, x) == Do(s, {"iplt", x}, [OnGca(s, fn) EXCEPT !.data = s.ns[x]])

\* A cube: the month_number of each of its time slices.
Cube(months) == [t |-> "cube", months |-> months]

\* The constraint ignored: every slice is kept.
extract_every_slice(cube, m) == Cube(cube.months)

\* cube.extract(iris.Constraint(month_number=m)): the slices whose month is m.
extract(cube, m) == Cube(SelectSeq(cube.months, LAMBDA x : x = m))

Dict(m) == [t |-> "dict", m |-> m]
NameList(v) == [t |-> "names", names |-> v]

\* lons, lats = zip(*[(places[place]['lon'], places[place]['lat'])
\*                    for place in destinations])
zip_lons_lats(s) ==
    LET a == Need(s, {"destinations", "places"})
        d == a.ns["destinations"].names
        m == a.ns["places"].m
        b == Raise(a, \E i \in 1..Len(d) : d[i] \notin DOMAIN m, "KeyError")
        lons == List([i \in 1..Len(d) |-> m[d[i]].lon])
        lats == List([i \in 1..Len(d) |-> m[d[i]].lat])
    IN  Bind(Bind(b, "lons", lons), "lats", lats)

---------------------------------------------------------------------------
(* tutorial/geospatial/raster_to_raster.ipynb *)

NcPath == "../../resources/HadCRUT/fogg_mean_surface_temp.nc"
WikiPngNear == "../resources/640px-Around_the_World_in_Eighty_Days_map.png"
WikiPngFar == "../../resources/640px-Around_the_World_in_Eighty_Days_map.png"

\* The months of the pre-processed dataset: October, November, December.
DatasetMonths == <<10, 11, 12>>

R_fname(s) ==
    LET s1 == Bind(s, "fname", Str(NcPath))
    IN  <<s1>>

\* !ncdump -h $fname : a shell command; IPython expands $fname when it is bound.
R_ncdump(s) ==
    LET s1 == Emit(s, [Call("ncdump", NoArg) EXCEPT !.data = s.ns["fname"]])
    IN  <<s1>>

\* cube = iris.load_cube(fname): raises when the file is missing or is not a
\* NetCDF dataset.
iris_load_cube(s) ==
    LET a == Need(s, {"iris", "fname"})
        b == Raise(a, a.ns["fname"].s \notin files, "OSError")
        c == Raise(b, b.ns["fname"].s # NcPath, "ValueError")
        d == Emit(c, [Call("load_cube", NoArg) EXCEPT !.data = c.ns["fname"]])
    IN  Bind(d, "cube", Cube(DatasetMonths))

R_load_cube(s) ==
    LET s1 == Bind(s, "iris", Module("iris"))
        s2 == iris_load_cube(s1)
    IN  <<s1, s2>>

R_show_cube(s) ==
    LET s1 == Do(s, {"cube"}, [Call("display", NoArg) EXCEPT !.data = s.ns["cube"]])
    IN  <<s1>>

print_coord(s, coord) ==
    Do(s, {"cube"}, [Call("print", NoArg) EXCEPT !.data = s.ns["cube"], !.label = Str(coord)])

R_print_decade(s) ==
    LET s1 == print_coord(s, "decade")
    IN  <<s1>>

R_print_month_number(s) ==
    LET s1 == print_coord(s, "month_number")
    IN  <<s1>>

R_print_time(s) ==
    LET s1 == print_coord(s, "time")
    IN  <<s1>>

R_imports(s) ==
    LET s1 == Bind(s, "ccrs", Module("cartopy.crs"))
        s2 == Bind(s1, "iplt", Module("iris.plot"))
        s3 == Bind(s2, "plt", Module("matplotlib.pyplot"))
    IN  <<s1, s2, s3>>

OctoberMonth == 10

R_october(s) ==
    LET s1 == plt_figure(s)
        s2 == Assign(s1, {"cube", "iris"}, "october_cube",
                     extract(s1.ns["cube"], OctoberMonth))
        s3 == plt_axes(s2, {"ccrs"}, "ax1", "subplot", Robinson(0))
        s4 == iplt_draw(s3, "pcolormesh", "october_cube")
        s5 == plt_title(s4, "pcolormesh")
        s6 == coastlines(s5, "ax1")
        s7 == set_global(s6, "ax1")
        s8 == plt_axes(s7, {"ccrs"}, "ax2", "subplot", Robinson(0))
        s9 == iplt_draw(s8, "contourf", "october_cube")
        s10 == plt_title(s9, "contourf")
        s11 == coastlines(s10, "ax2")
        s12 == set_global(s11, "ax2")
        s13 == plt_tight_layout(s12)
        s14 == plt_show(s13)
    IN  <<s1, s2, s3, s4, s5, s6, s7, s8, s9, s10, s11, s12, s13, s14>>

\* Our calculated geolocated raster image extents.
R_extent == <<-13636707, 17044670, -6308712, 8565930>>

\* 11 degrees 15 minutes east, in 1e-4 degree.
R_central_longitude == 112500

R_native(s) ==
    LET s1 == Bind(s, "extent", List(R_extent))
        s2 == plt_figure(s1)
        s3 == Assign(s2, {"ccrs"}, "rob", Robinson(R_central_longitude))
        s4 == plt_axes(s3, {"rob"}, "ax", "axes", s3.ns["rob"])
        s5 == gridlines(s4, "ax", GrayDashed)
        s6 == coastlines(s5, "ax")
        s7 == plt_imread(s6, {}, "img", WikiPngNear)
        s8 == imshow(s7, "ax", {"img", "extent", "rob"},
                     s7.ns["img"], s7.ns["extent"], s7.ns["rob"], "upper")
        s9 == set_global(s8, "ax")
        s10 == plt_figure(s9)
        s11 == Bind(s10, "fname", Str(WikiPngFar))
        s12 == Assign(s11, {"ccrs"}, "rob", Robinson(R_central_longitude))
        s13 == plt_axes(s12, {"rob"}, "ax", "axes", s12.ns["rob"])
        s14 == gridlines(s13, "ax", GrayDashed)
        s15 == coastlines(s14, "ax")
        s16 == plt_imread(s15, {"fname"}, "img", s15.ns["fname"].s)
        s17 == imshow(s16, "ax", {"img", "extent", "rob"},
                      s16.ns["img"], s16.ns["extent"], s16.ns["rob"], "upper")
        s18 == set_global(s17, "ax")
        s19 == plt_tight_layout(s18)
        s20 == plt_show(s19)
    IN  <<s1, s2, s3, s4, s5, s6, s7, s8, s9, s10, s11, s12, s13, s14, s15, s16,
          s17, s18, s19, s20>>

\* The image handed over as if it were in the coordinate system of the axes.
R_reproject_imshow_in_map_crs(s) ==
    imshow(s, "ax", {"img", "extent", "ccrs"},
           s.ns["img"], s.ns["extent"], PlateCarree(0), "upper")

\* The image reprojected: the axes is Plate Carree, the image keeps its CRS.
R_reproject_imshow(s) ==
    imshow(s, "ax", {"img", "extent", "rob"},
           s.ns["img"], s.ns["extent"], s.ns["rob"], "upper")

\* The image not read again: the cell shows the img an earlier cell left.
R_reproject_without_imread(s) ==
    LET s1 == plt_figure(s)
        s2 == plt_axes(s1, {"ccrs"}, "ax", "axes", PlateCarree(0))
        s3 == gridlines(s2, "ax", GrayDashed)
        s4 == coastlines(s3, "ax")
        s5 == Need(s4, {"img"})
        s6 == R_reproject_imshow(s5)
        s7 == set_global(s6, "ax")
        s8 == plt_tight_layout(s7)
        s9 == plt_show(s8)
    IN  <<s1, s2, s3, s4, s5, s6, s7, s8, s9>>

R_reproject(s) ==
    LET s1 == plt_figure(s)
        s2 == plt_axes(s1, {"ccrs"}, "ax", "axes", PlateCarree(0))
        s3 == gridlines(s2, "ax", GrayDashed)
        s4 == coastlines(s3, "ax")
        s5 == plt_imread(s4, {"fname"}, "img", s4.ns["fname"].s)
        s6 == R_reproject_imshow(s5)
        s7 == set_global(s6, "ax")
        s8 == plt_tight_layout(s7)
        s9 == plt_show(s8)
    IN  <<s1, s2, s3, s4, s5, s6, s7, s8, s9>>

\* The image not read again: the solution shows the img an earlier cell left.
R_solution_3_1_without_imread(s) ==
    LET s1 == plt_figure(s)
        s2 == plt_axes(s1, {"ccrs"}, "ax", "axes", PlateCarree(0))
        s3 == gridlines(s2, "ax", GrayDashed)
        s4 == coastlines(s3, "ax")
        s5 == Need(s4, {"fname"})
        s6 == imshow(s5, "ax", {"img", "extent", "rob"},
                     s5.ns["img"], s5.ns["extent"], s5.ns["rob"], "upper")
        s7 == set_global(s6, "ax")
        s8 == iplt_draw(s7, "pcolormesh", "october_cube")
        s9 == plt_tight_layout(s8)
        s10 == plt_show(s9)
    IN  <<s1, s2, s3, s4, s5, s6, s7, s8, s9, s10>>

\* The temperatures drawn first, the image over them.
R_solution_3_1_pcolormesh_first(s) ==
    LET s1 == plt_figure(s)
        s2 == plt_axes(s1, {"ccrs"}, "ax", "axes", PlateCarree(0))
        s3 == gridlines(s2, "ax", GrayDashed)
        s4 == coastlines(s3, "ax")
        s5 == plt_imread(s4, {"fname"}, "img", s4.ns["fname"].s)
        s6 == iplt_draw(s5, "pcolormesh", "october_cube")
        s7 == imshow(s6, "ax", {"img", "extent", "rob"},
                     s6.ns["img"], s6.ns["extent"], s6.ns["rob"], "upper")
        s8 == set_global(s7, "ax")
        s9 == plt_tight_layout(s8)
        s10 == plt_show(s9)
    IN  <<s1, s2, s3, s4, s5, s6, s7, s8, s9, s10>>

R_solution_3_1(s) ==
    LET s1 == plt_figure(s)
        s2 == plt_axes(s1, {"ccrs"}, "ax", "axes", PlateCarree(0))
        s3 == gridlines(s2, "ax", GrayDashed)
        s4 == coastlines(s3, "ax")
        s5 == plt_imread(s4, {"fname"}, "img", s4.ns["fname"].s)
        s6 == imshow(s5, "ax", {"img", "extent", "rob"},
                     s5.ns["img"], s5.ns["extent"], s5.ns["rob"], "upper")
        s7 == set_global(s6, "ax")
        s8 == iplt_draw(s7, "pcolormesh", "october_cube")
        s9 == plt_tight_layout(s8)
        s10 == plt_show(s9)
    IN  <<s1, s2, s3, s4, s5, s6, s7, s8, s9, s10>>

LonLat(lon, lat) == [lon |-> lon, lat |-> lat]

\* Some approximate locations of each of the cities (1e-4 degree).
R_places ==
    [p \in {"London", "Suez", "Bombay", "Calcutta", "Hong Kong", "Yokohama",
            "San Fransisco", "New York City"} |->
        CASE p = "London" -> LonLat(-1278, 515074)
          [] p = "Suez" -> LonLat(325498, 299668)
          [] p = "Bombay" -> LonLat(728777, 190760)
          [] p = "Calcutta" -> LonLat(883639, 225726)
          [] p = "Hong Kong" -> LonLat(1141095, 223964)
          [] p = "Yokohama" -> LonLat(1396380, 354437)
          [] p = "San Fransisco" -> LonLat(-1224194, 377749)
          [] p = "New York City" -> LonLat(-740060, 407128)]

\* The route left open: no return to London.
R_destinations_open ==
    <<"London", "Suez", "Bombay", "Calcutta", "Hong Kong",
      "Yokohama", "San Fransisco", "New York City">>

R_destinations ==
    <<"London", "Suez", "Bombay", "Calcutta", "Hong Kong",
      "Yokohama", "San Fransisco", "New York City", "London">>

R_route_transform == Geodetic

R_solution_3_1_extension(s) ==
    LET s1 == Bind(s, "places", Dict(R_places))
        s2 == Bind(s1, "destinations", NameList(R_destinations))
        s3 == plt_figure(s2)
        s4 == plt_axes(s3, {"ccrs"}, "ax", "axes", PlateCarree(0))
        s5 == coastlines(s4, "ax")
        s6 == zip_lons_lats(s5)
        s7 == imshow(s6, "ax", {"img", "extent", "rob"},
                     s6.ns["img"], s6.ns["extent"], s6.ns["rob"], "upper")
        s8 == plot(s7, "ax", {"lons", "lats", "ccrs"}, s7.ns["lons"], s7.ns["lats"],
                   R_route_transform, NoArg, {})
        s9 == plt_tight_layout(s8)
        s10 == plt_show(s9)
    IN  <<s1, s2, s3, s4, s5, s6, s7, s8, s9, s10>>

---------------------------------------------------------------------------
(* Cartopy and the matplotlib interface (the second notebook) *)

NaturalEarthPng == "../resources/natural-earth-2/global.png"
StatesShp == "../resources/states/states.shp"

M_import_ccrs(s) ==
    LET s1 == Bind(s, "ccrs", Module("cartopy.crs"))
    IN  <<s1>>

M_platecarree(s) ==
    LET s1 == Do(s, {"ccrs"}, [Call("display", NoArg) EXCEPT !.data = PlateCarree(0)])
    IN  <<s1>>

M_import_plt(s) ==
    LET s1 == Bind(s, "plt", Module("matplotlib.pyplot"))
        s2 == new_axes(s1, {"ccrs"}, "axes", PlateCarree(0))
    IN  <<s1, s2>>

M_coastlines(s) ==
    LET s1 == plt_figure(s)
        s2 == plt_axes(s1, {"ccrs"}, "ax", "axes", PlateCarree(0))
        s3 == coastlines(s2, "ax")
    IN  <<s1, s2, s3>>

M_subplots(s) ==
    LET s1 == plt_axes(s, {"ccrs"}, "ax", "subplots", PlateCarree(0))
        s2 == Bind(s1, "fig", Figure)
        s3 == coastlines(s2, "ax")
    IN  <<s1, s2, s3>>

\* The dateline, 180 degrees, in 1e-4 degree.
M_dateline == 1800000

M_solution_2_1(s) ==
    LET s1 == plt_figure(s)
        s2 == Assign(s1, {"ccrs"}, "pc_180", PlateCarree(M_dateline))
        s3 == plt_axes(s2, {"pc_180"}, "ax", "axes", s2.ns["pc_180"])
        s4 == coastlines(s3, "ax")
        s5 == plt_show(s4)
    IN  <<s1, s2, s3, s4, s5>>

\* ax.set_extent(extent): the call names no coordinate system.
set_extent(s, a, extent) ==
    Do(s, {a}, [On(s, a, "set_extent") EXCEPT !.extent = List(extent)])

M_map_extent == <<-170, -50, 10, 80>>

BlackDashed == {<<"color", "black">>, <<"alpha", "0.2">>, <<"linestyle", "--">>}
BlackDashedLabels == BlackDashed \cup {<<"draw_labels", "True">>}

M_set_extent(s) ==
    LET s1 == plt_figure(s)
        s2 == plt_axes(s1, {"ccrs"}, "ax", "axes", PlateCarree(0))
        s3 == set_extent(s2, "ax", M_map_extent)
        s4 == gridlines(s3, "ax", BlackDashedLabels)
        s5 == stock_img(s4, "ax")
    IN  <<s1, s2, s3, s4, s5>>

M_imread(s) ==
    LET s1 == plt_imread(s, {}, "img", NaturalEarthPng)
        s2 == Do(s1, {"img"},
                 [Call("print", NoArg) EXCEPT !.data = s1.ns["img"], !.label = Str("shape")])
    IN  <<s1, s2>>

Geometries(path) == [t |-> "geometries", file |-> path]

\* with fiona.open(shpfile) as records: geometries = [...]: raises when the
\* shapefile is missing.
fiona_geometries(s) ==
    LET a == Need(s, {"fiona", "shpfile", "sgeom"})
        b == Raise(a, a.ns["shpfile"].s \notin files, "DriverError")
        c == Emit(b, [Call("fiona.open", NoArg) EXCEPT !.data = b.ns["shpfile"]])
    IN  Bind(c, "geometries", Geometries(c.ns["shpfile"].s))

\* The load wrapped in a handler: a missing shapefile gives no geometries and
\* the cell goes on.
M_shapefile_except_empty(s) ==
    LET s1 == Bind(s, "fiona", Module("fiona"))
        s2 == Bind(s1, "sgeom", Module("shapely.geometry"))
        s3 == Bind(s2, "shpfile", Str(StatesShp))
        s4 == fiona_geometries(s3)
        s5 == IF s4.err = "DriverError"
              THEN [s4 EXCEPT !.err = "none", !.ns["geometries"] = List(<<>>)]
              ELSE s4
    IN  <<s1, s2, s3, s4, s5>>

M_shapefile(s) ==
    LET s1 == Bind(s, "fiona", Module("fiona"))
        s2 == Bind(s1, "sgeom", Module("shapely.geometry"))
        s3 == Bind(s2, "shpfile", Str(StatesShp))
        s4 == fiona_geometries(s3)
    IN  <<s1, s2, s3, s4>>

\* The latitude bounds written top first.
M_image_extent_flipped == <<-180, 180, 90, -90>>

M_image_extent == <<-180, 180, -90, 90>>

EdgeGray == {<<"edgecolor", "gray">>}
EdgeGrayNoFace == {<<"edgecolor", "gray">>, <<"facecolor", "none">>}

\* The geometries added without their coordinate system.
add_geometries_without_crs(s, a, xs, geoms, crs, style) ==
    Do(s, {a} \cup xs,
       [On(s, a, "add_geometries") EXCEPT !.data = geoms, !.style = style])

\* ax.add_geometries(geometries, crs, **style)
add_geometries(s, a, xs, geoms, crs, style) ==
    Do(s, {a} \cup xs,
       [On(s, a, "add_geometries") EXCEPT !.data = geoms, !.transform = crs,
                                          !.style = style])

M_states_map(s) ==
    LET s1 == plt_figure(s)
        s2 == plt_axes(s1, {"ccrs"}, "ax", "axes", PlateCarree(0))
        s3 == set_extent(s2, "ax", M_map_extent)
        s4 == gridlines(s3, "ax", BlackDashedLabels)
        s5 == imshow(s4, "ax", {"img", "ccrs"}, s4.ns["img"], List(M_image_extent),
                     PlateCarree(0), "upper")
        s6 == add_geometries(s5, "ax", {"geometries", "ccrs"}, s5.ns["geometries"],
                       PlateCarree(0), EdgeGrayNoFace)
    IN  <<s1, s2, s3, s4, s5, s6>>

Point(lon, lat) == [t |-> "point", lon |-> lon, lat |-> lat]

\* 1e-4 degree.
M_new_york == Point(-740060, 407128)
M_honolulu == Point(-1578583, 213069)

\* The straight line drawn in the coordinate system of the map.
nyh_transform_of_the_map(ax) == ax.projection

\* The coordinate system of each of the two lines: the data's, not the map's.
nyh_straight_transform(ax) == PlateCarree(0)
nyh_great_circle_transform(ax) == Geodetic

\* def new_york_to_honolulu(ax): the body, run on the axes passed in; it reads
\* the globals new_york, honolulu and ccrs when it is called.
new_york_to_honolulu(s, ax) ==
    LET s1 == Need(s, {"new_york", "honolulu"})
        lons == List(<<s1.ns["new_york"].lon, s1.ns["honolulu"].lon>>)
        lats == List(<<s1.ns["new_york"].lat, s1.ns["honolulu"].lat>>)
        s2 == Do(s1, {"ccrs"},
                 [Call("plot", ax) EXCEPT !.data = XY(lons, lats),
                                          !.transform = nyh_straight_transform(ax),
                                          !.label = Str("Equirectangular straight line")])
        s3 == Do(s2, {"ccrs"},
                 [Call("plot", ax) EXCEPT !.data = XY(lons, lats),
                                          !.transform = nyh_great_circle_transform(ax),
                                          !.label = Str("Great circle")])
    IN  Emit(s3, Call("legend", ax))

\* new_york_to_honolulu(ax)
call_new_york_to_honolulu(s) ==
    LET a == Need(s, {"new_york_to_honolulu", "ax"})
    IN  IF Ok(a) THEN new_york_to_honolulu(a, a.ns["ax"]) ELSE a

add_feature(s, a, feature, style) ==
    Do(s, {a, "cartopy"},
       [On(s, a, "add_feature") EXCEPT !.data = Str(feature), !.style = style])

M_nyh_platecarree(s) ==
    LET s1 == Bind(s, "new_york", M_new_york)
        s2 == Bind(s1, "honolulu", M_honolulu)
        s3 == Bind(s2, "new_york_to_honolulu", Function("new_york_to_honolulu"))
        s4 == Bind(s3, "cartopy", Module("cartopy"))
        s5 == plt_figure(s4)
        s6 == plt_axes(s5, {"ccrs"}, "ax", "axes", PlateCarree(0))
        s7 == set_extent(s6, "ax", M_map_extent)
        s8 == gridlines(s7, "ax", BlackDashed)
        s9 == stock_img(s8, "ax")
        s10 == add_feature(s9, "ax", "STATES", EdgeGray)
        s11 == call_new_york_to_honolulu(s10)
    IN  <<s1, s2, s3, s4, s5, s6, s7, s8, s9, s10, s11>>

M_nyh_stereo(s) ==
    LET s1 == Assign(s, {"ccrs", "new_york"}, "ny_stereo",
                     Stereographic(s.ns["new_york"].lon, s.ns["new_york"].lat))
        s2 == plt_figure(s1)
        s3 == plt_axes(s2, {"ny_stereo"}, "ax", "axes", s2.ns["ny_stereo"])
        s4 == set_extent(s3, "ax", M_map_extent)
        s5 == gridlines(s4, "ax", BlackDashed)
        s6 == stock_img(s5, "ax")
        s7 == add_feature(s6, "ax", "STATES", EdgeGray)
        s8 == call_new_york_to_honolulu(s7)
    IN  <<s1, s2, s3, s4, s5, s6, s7, s8>>

\* class HigherResStereo(ccrs.Stereographic): an instance keeps the parameters
\* it is built with.
HigherResStereo(lon, lat) == Crs("HigherResStereo", lon, lat)

\* A number as a fraction: Python's true division gives no integer.
Ratio(n, d) == [num |-> n, den |-> d]

\* The threshold multiplied instead of divided.
HigherResStereo_threshold_times_10(super_threshold) ==
    Ratio(super_threshold.num * 10, super_threshold.den)

\* def threshold(self): return super().threshold / 10
HigherResStereo_threshold(super_threshold) ==
    Ratio(super_threshold.num, super_threshold.den * 10)

\* The threshold the library gives ccrs.Stereographic, taken as the unit.
Stereographic_threshold == Ratio(1, 1)

\* crs.threshold of a crs of the Stereographic family: HigherResStereo
\* overrides the property, ccrs.Stereographic has its own.
threshold(crs) ==
    IF crs.class = "HigherResStereo"
    THEN HigherResStereo_threshold(Stereographic_threshold)
    ELSE Stereographic_threshold

M_nyh_higher_res(s) ==
    LET s1 == Assign(s, {"ccrs"}, "HigherResStereo", Class("HigherResStereo"))
        s2 == Assign(s1, {"HigherResStereo", "new_york"}, "ny_stereo",
                     HigherResStereo(s1.ns["new_york"].lon, s1.ns["new_york"].lat))
        s3 == plt_figure(s2)
        s4 == plt_axes(s3, {"ny_stereo"}, "ax", "axes", s3.ns["ny_stereo"])
        s5 == set_extent(s4, "ax", M_map_extent)
        s6 == gridlines(s5, "ax", BlackDashed)
        s7 == stock_img(s6, "ax")
        s8 == add_feature(s7, "ax", "STATES", EdgeGray)
        s9 == call_new_york_to_honolulu(s8)
    IN  <<s1, s2, s3, s4, s5, s6, s7, s8, s9>>

\* Some approximate locations of each of the cities (1e-4 degree).
M_places ==
    [p \in {"London", "Suez", "Bombay", "Calcutta", "Hong Kong", "Yokohama",
            "San Fransisco", "New York City"} |->
        CASE p = "London" -> LonLat(-1278, 515074)
          [] p = "Suez" -> LonLat(325498, 299668)
          [] p = "Bombay" -> LonLat(728777, 190760)
          [] p = "Calcutta" -> LonLat(883639, 225726)
          [] p = "Hong Kong" -> LonLat(1141095, 223964)
          [] p = "Yokohama" -> LonLat(1396380, 354437)
          [] p = "San Fransisco" -> LonLat(-1224194, 377749)
          [] p = "New York City" -> LonLat(-740060, 407128)]

M_places_cell(s) ==
    LET s1 == Bind(s, "places", Dict(M_places))
    IN  <<s1>>

M_destinations ==
    <<"London", "Suez", "Bombay", "Calcutta", "Hong Kong",
      "Yokohama", "San Fransisco", "New York City", "London">>

M_route_transform == Geodetic

OrangeDashed == {<<"linestyle", "--">>, <<"color", "orange">>, <<"linewidth", "4">>}

M_solution_2_2(s) ==
    LET s1 == plt_figure(s)
        s2 == plt_axes(s1, {"ccrs"}, "ax", "axes", PlateCarree(0))
        s3 == coastlines(s2, "ax")
        s4 == Bind(s3, "destinations", NameList(M_destinations))
        s5 == zip_lons_lats(s4)
        s6 == stock_img(s5, "ax")
        s7 == Do(s6, {"ax"},
                 [On(s6, "ax", "set_title") EXCEPT !.label = Str("Phileas Fogg's proposed route")])
        s8 == plot(s7, "ax", {"lons", "lats", "ccrs"}, s7.ns["lons"], s7.ns["lats"],
                   M_route_transform, NoArg, OrangeDashed)
    IN  <<s1, s2, s3, s4, s5, s6, s7, s8>>

M_central_longitude == 112500

M_solution_2_3(s) ==
    LET s1 == plt_figure(s)
        s2 == plt_axes(s1, {"ccrs"}, "ax", "axes", Robinson(M_central_longitude))
        s3 == stock_img(s2, "ax")
        s4 == gridlines(s3, "ax", GrayDashed)
        s5 == Do(s4, {"ax"},
                 [On(s4, "ax", "set_title") EXCEPT
                    !.label = Str("Robinson centered on the meridian 11d15' east")])
    IN  <<s1, s2, s3, s4, s5>>

\* The extent with the x and the y bounds exchanged.
M_extent_yx == <<-6308712, 8565930, -13636707, 17044670>>

M_extent == <<-13636707, 17044670, -6308712, 8565930>>

M_solution_2_4(s) ==
    LET s1 == Bind(s, "extent", List(M_extent))
        s2 == plt_figure(s1)
        s3 == Assign(s2, {"ccrs"}, "rob", Robinson(M_central_longitude))
        s4 == plt_axes(s3, {"rob"}, "ax", "axes", s3.ns["rob"])
        s5 == gridlines(s4, "ax", GrayDashed)
        s6 == coastlines(s5, "ax")
        s7 == plt_imread(s6, {}, "img", WikiPngNear)
        s8 == imshow(s7, "ax", {"img", "extent", "rob"},
                     s7.ns["img"], s7.ns["extent"], s7.ns["rob"], "upper")
        s9 == set_global(s8, "ax")
    IN  <<s1, s2, s3, s4, s5, s6, s7, s8, s9>>

---------------------------------------------------------------------------
(* The session *)

RasterFiles == {NcPath, WikiPngNear, WikiPngFar}
MplFiles == {NaturalEarthPng, StatesShp, WikiPngNear}

Init ==
    /\ book \in {"mpl", "raster"}
    /\ files \in SUBSET (IF book = "mpl" THEN MplFiles ELSE RasterFiles)
    /\ ns = [x \in Names |-> Undef]
    /\ gca = NoArg
    /\ out = <<>>
    /\ err = "none"
    /\ last = "none"

\* The reader runs one cell to its end (or to the statement that raises):
\* trace holds the state after each of the cell's statements, in order.
Run(cell, trace) ==
    LET r == trace[Len(trace)] IN
    /\ ns' = r.ns
    /\ gca' = r.gca
    /\ out' = r.out
    /\ err' = r.err
    /\ last' = cell
    /\ UNCHANGED <<book, files>>

Run_R_fname ==
    /\ book = "raster"
    /\ Run("R_fname", R_fname(Start))

Run_R_ncdump ==
    /\ book = "raster"
    /\ Run("R_ncdump", R_ncdump(Start))

Run_R_load_cube ==
    /\ book = "raster"
    /\ Run("R_load_cube", R_load_cube(Start))

Run_R_show_cube ==
    /\ book = "raster"
    /\ Run("R_show_cube", R_show_cube(Start))

Run_R_print_decade ==
    /\ book = "raster"
    /\ Run("R_print_decade", R_print_decade(Start))

Run_R_print_month_number ==
    /\ book = "raster"
    /\ Run("R_print_month_number", R_print_month_number(Start))

Run_R_print_time ==
    /\ book = "raster"
    /\ Run("R_print_time", R_print_time(Start))

Run_R_imports ==
    /\ book = "raster"
    /\ Run("R_imports", R_imports(Start))

Run_R_october ==
    /\ book = "raster"
    /\ Run("R_october", R_october(Start))

Run_R_native ==
    /\ book = "raster"
    /\ Run("R_native", R_native(Start))

Run_R_reproject ==
    /\ book = "raster"
    /\ Run("R_reproject", R_reproject(Start))

Run_R_solution_3_1 ==
    /\ book = "raster"
    /\ Run("R_solution_3_1", R_solution_3_1(Start))

Run_R_solution_3_1_extension ==
    /\ book = "raster"
    /\ Run("R_solution_3_1_extension", R_solution_3_1_extension(Start))

Run_M_import_ccrs ==
    /\ book = "mpl"
    /\ Run("M_import_ccrs", M_import_ccrs(Start))

Run_M_platecarree ==
    /\ book = "mpl"
    /\ Run("M_platecarree", M_platecarree(Start))

Run_M_import_plt ==
    /\ book = "mpl"
    /\ Run("M_import_plt", M_import_plt(Start))

Run_M_coastlines ==
    /\ book = "mpl"
    /\ Run("M_coastlines", M_coastlines(Start))

Run_M_subplots ==
    /\ book = "mpl"
    /\ Run("M_subplots", M_subplots(Start))

Run_M_solution_2_1 ==
    /\ book = "mpl"
    /\ Run("M_solution_2_1", M_solution_2_1(Start))

Run_M_set_extent ==
    /\ book = "mpl"
    /\ Run("M_set_extent", M_set_extent(Start))

Run_M_imread ==
    /\ book = "mpl"
    /\ Run("M_imread", M_imread(Start))

Run_M_shapefile ==
    /\ book = "mpl"
    /\ Run("M_shapefile", M_shapefile(Start))

Run_M_states_map ==
    /\ book = "mpl"
    /\ Run("M_states_map", M_states_map(Start))

Run_M_nyh_platecarree ==
    /\ book = "mpl"
    /\ Run("M_nyh_platecarree", M_nyh_platecarree(Start))

Run_M_nyh_stereo ==
    /\ book = "mpl"
    /\ Run("M_nyh_stereo", M_nyh_stereo(Start))

Run_M_nyh_higher_res ==
    /\ book = "mpl"
    /\ Run("M_nyh_higher_res", M_nyh_higher_res(Start))

Run_M_places_cell ==
    /\ book = "mpl"
    /\ Run("M_places_cell", M_places_cell(Start))

Run_M_solution_2_2 ==
    /\ book = "mpl"
    /\ Run("M_solution_2_2", M_solution_2_2(Start))

Run_M_solution_2_3 ==
    /\ book = "mpl"
    /\ Run("M_solution_2_3", M_solution_2_3(Start))

Run_M_solution_2_4 ==
    /\ book = "mpl"
    /\ Run("M_solution_2_4", M_solution_2_4(Start))

Next ==
    \/ Run_R_fname
    \/ Run_R_ncdump
    \/ Run_R_load_cube
    \/ Run_R_show_cube
    \/ Run_R_print_decade
    \/ Run_R_print_month_number
    \/ Run_R_print_time
    \/ Run_R_imports
    \/ Run_R_october
    \/ Run_R_native
    \/ Run_R_reproject
    \/ Run_R_solution_3_1
    \/ Run_R_solution_3_1_extension
    \/ Run_M_import_ccrs
    \/ Run_M_platecarree
    \/ Run_M_import_plt
    \/ Run_M_coastlines
    \/ Run_M_subplots
    \/ Run_M_solution_2_1
    \/ Run_M_set_extent
    \/ Run_M_imread
    \/ Run_M_shapefile
    \/ Run_M_states_map
    \/ Run_M_nyh_platecarree
    \/ Run_M_nyh_stereo
    \/ Run_M_nyh_higher_res
    \/ Run_M_places_cell
    \/ Run_M_solution_2_2
    \/ Run_M_solution_2_3
    \/ Run_M_solution_2_4

Spec == Init /\ [][Next]_vars

---------------------------------------------------------------------------
(* Properties *)

CallsOf(fns) == {i \in 1..Len(out) : out[i].fn \in fns}

\* C6: every four-element extent [x0, x1, y0, y1] passed to set_extent or
\* imshow, in both notebooks and in the solutions, is ordered along each
\* axis: x0 < x1 and y0 < y1.
C6_ExtentsOrdered ==
    \A i \in CallsOf({"set_extent", "imshow"}) :
        /\ out[i].extent.t = "list"
        /\ Len(out[i].extent.xs) = 4
        /\ out[i].extent.xs[1] < out[i].extent.xs[2]
        /\ out[i].extent.xs[3] < out[i].extent.xs[4]

\* A cell has zoomed the map to a bounding box and shown an image with its extent.
C6_Witness ==
    /\ err = "none"
    /\ CallsOf({"set_extent"}) # {}
    /\ CallsOf({"imshow"}) # {}

\* C7 as claimed: every call that adds a spatial dataset to a map (imshow,
\* add_geometries, plot, set_extent, iris pcolormesh/contourf) gives the
\* dataset's coordinate reference system through its transform/crs argument.
C7_EveryDatasetCallGivesCrs ==
    \A i \in CallsOf({"imshow", "add_geometries", "plot", "set_extent",
                      "pcolormesh", "contourf"}) :
        out[i].transform.t = "crs"

\* C7 amended: every imshow of an image with an extent, every add_geometries
\* and every ax.plot of longitudes/latitudes gives exactly one coordinate
\* reference system through its transform/crs argument; the set_extent calls
\* and the iris pcolormesh/contourf calls give none (the bounding box is left
\* to the library's default, the cube carries its own coordinate system).
C7_DataCallsGiveCrs ==
    /\ \A i \in CallsOf({"imshow", "add_geometries", "plot"}) :
           out[i].transform.t = "crs"
    /\ \A i \in CallsOf({"set_extent", "pcolormesh", "contourf"}) :
           out[i].transform = NoArg

\* A cell has set the extent, shown an image and added geometries on one map.
C7_Witness ==
    /\ err = "none"
    /\ CallsOf({"set_extent"}) # {}
    /\ CallsOf({"imshow"}) # {}
    /\ CallsOf({"add_geometries"}) # {}

\* The projections of the three New York to Honolulu maps.
NyhProjections ==
    {PlateCarree(0),
     Stereographic(-740060, 407128),
     HigherResStereo(-740060, 407128)}

WithoutAxes(calls) == [i \in 1..Len(calls) |-> [calls[i] EXCEPT !.ax = NoArg]]

\* What new_york_to_honolulu does in the session's present namespace on an
\* axes of projection p: the calls it issues (the axes left out), the error it
\* ends with and the namespace it leaves.
NyhOn(p) ==
    LET r == new_york_to_honolulu(Start, Axes(p, 1))
    IN  [calls |-> WithoutAxes(r.out), err |-> r.err, ns |-> r.ns]

NyhCalls == WithoutAxes(SubSeq(out, Len(out) - 2, Len(out)))

\* C8: the map projection is independent of the data's coordinate system: on
\* any two axes that differ only in their projection, new_york_to_honolulu(ax)
\* issues the same sequence of calls with the same arguments, and each of the
\* three maps got exactly that sequence: the straight line with transform
\* PlateCarree, the great circle with transform Geodetic, each with the same
\* longitudes, latitudes and label, then the legend.
C8_ProjectionIndependent ==
    /\ \A p1, p2 \in NyhProjections : NyhOn(p1) = NyhOn(p2)
    /\ last \in {"M_nyh_platecarree", "M_nyh_stereo", "M_nyh_higher_res"} /\ err = "none" =>
         /\ Len(out) >= 3
         /\ \A p \in NyhProjections : NyhCalls = NyhOn(p).calls
         /\ \A i \in Len(out) - 2 .. Len(out) : out[i].ax = ns["ax"]
         /\ NyhCalls[1].fn = "plot" /\ NyhCalls[1].transform = PlateCarree(0)
         /\ NyhCalls[1].label = Str("Equirectangular straight line")
         /\ NyhCalls[2].fn = "plot" /\ NyhCalls[2].transform = Geodetic
         /\ NyhCalls[2].label = Str("Great circle")
         /\ NyhCalls[1].data = NyhCalls[2].data
         /\ NyhCalls[1].data = XY(List(<<-740060, -1578583>>), List(<<407128, 213069>>))
         /\ NyhCalls[3].fn = "legend"

\* The lines have been drawn on the higher resolution stereographic map.
C8_Witness ==
    /\ last = "M_nyh_higher_res"
    /\ err = "none"
    /\ ns["ax"].projection = HigherResStereo(-740060, 407128)
    /\ CallsOf({"legend"}) # {}

HasImshow(calls) == \E i \in 1..Len(calls) : calls[i].fn = "imshow"

LastImshow(calls) ==
    calls[CHOOSE i \in 1..Len(calls) :
            /\ calls[i].fn = "imshow"
            /\ \A j \in i + 1 .. Len(calls) : calls[j].fn # "imshow"]

ImshowArgs(c) == <<c.data, c.extent, c.transform, c.origin>>

\* C9: reprojecting the Wikipedia image from Robinson to Plate Carree changes
\* only the projection of the axes: the cell leaves extent and rob unchanged,
\* and its imshow is given the image file, the extent and the source CRS as
\* transform (Robinson, central longitude 11.25) of the native Robinson plot,
\* on a Plate Carree axes.
C9_ReprojectKeepsSource ==
    [][last' = "R_reproject" =>
         /\ ns'["extent"] = ns["extent"]
         /\ ns'["rob"] = ns["rob"]
         /\ HasImshow(out') =>
              LET c == LastImshow(out')
              IN  /\ c.ax.projection = PlateCarree(0)
                  /\ c.data.file = "../../resources/640px-Around_the_World_in_Eighty_Days_map.png"
                  /\ c.extent = ns["extent"]
                  /\ c.transform = ns["rob"]
                  /\ c.transform = Robinson(112500)
                  /\ (last = "R_native" /\ err = "none") =>
                        /\ ImshowArgs(c) = ImshowArgs(LastImshow(out))
                        /\ LastImshow(out).ax.projection = Robinson(112500)]_vars

\* The image has been shown on the Plate Carree axes.
C9_Witness ==
    /\ last = "R_reproject"
    /\ err = "none"
    /\ HasImshow(out)

\* The stops of Phileas Fogg's journey, as the exercise states them.
FoggStops ==
    <<"London", "Suez", "Bombay", "Calcutta", "Hong Kong", "Yokohama",
      "San Fransisco", "New York City", "London">>

\* The city a plotted vertex is the location of.
CityAt(lon, lat) ==
    LET m == ns["places"].m
    IN  IF \E n \in DOMAIN m : m[n] = LonLat(lon, lat)
        THEN CHOOSE n \in DOMAIN m : m[n] = LonLat(lon, lat)
        ELSE "nowhere"

PlottedStops(c) ==
    [i \in 1..Len(c.data.lons.xs) |-> CityAt(c.data.lons.xs[i], c.data.lats.xs[i])]

\* C10: in the solution of exercise 2.2 and in the solution of the exercise
\* 3.1 extension, the plotted vertex sequence starts at London, visits Suez,
\* Bombay, Calcutta, Hong Kong, Yokohama, San Fransisco and New York City in
\* that order, each once, ends at London, and is plotted with the Geodetic
\* transform (great circles).
C10_FoggRoute ==
    last \in {"M_solution_2_2", "R_solution_3_1_extension"} =>
        /\ err = "none" => Cardinality(CallsOf({"plot"})) = 1
        /\ \A i \in CallsOf({"plot"}) :
             /\ \A n1, n2 \in DOMAIN ns["places"].m :
                    n1 # n2 => ns["places"].m[n1] # ns["places"].m[n2]
             /\ Len(out[i].data.lats.xs) = Len(out[i].data.lons.xs)
             /\ PlottedStops(out[i]) = FoggStops
             /\ out[i].transform = Geodetic

\* The route has been drawn over the Wikipedia image.
C10_Witness ==
    /\ last = "R_solution_3_1_extension"
    /\ err = "none"
    /\ CallsOf({"plot"}) # {}
    /\ CallsOf({"imshow"}) # {}

\* The Around-the-World image, read from either of its two relative paths.
AroundTheWorld ==
    {Image("../resources/640px-Around_the_World_in_Eighty_Days_map.png"),
     Image("../../resources/640px-Around_the_World_in_Eighty_Days_map.png")}

\* The georeference the notebooks document for that image.
Georeferenced(c) ==
    /\ c.extent = List(<<-13636707, 17044670, -6308712, 8565930>>)
    /\ c.origin = Str("upper")
    /\ c.transform = Robinson(112500)

OverlayFn == IF last = "R_solution_3_1" THEN "pcolormesh" ELSE "plot"

\* C12: in the solutions of exercise 3.1 and of its extension, the overlay is
\* drawn over the Wikipedia image on a Plate Carree map: the one axes of the
\* cell is created with projection PlateCarree, the imshow of the image is
\* issued before the overlay call (pcolormesh of october_cube in 3.1, plot of
\* the route in the extension) and never after it, and the overlay is drawn
\* on the same axes as the image; a solution that runs to its end has issued
\* exactly one imshow and one overlay.
C12_OverlayOverImage ==
    last \in {"R_solution_3_1", "R_solution_3_1_extension"} =>
        /\ \A a \in CallsOf({"axes"}) : out[a].ax = Axes(PlateCarree(0), 1)
        /\ \A j \in CallsOf({OverlayFn}) :
              /\ \E i \in CallsOf({"imshow"}) :
                    /\ i < j
                    /\ out[i].data \in AroundTheWorld
                    /\ out[i].ax = out[j].ax
              /\ \A i \in CallsOf({"imshow"}) : i < j /\ out[i].ax = out[j].ax
              /\ \E a \in CallsOf({"axes"}) : a < j /\ out[a].ax = out[j].ax
              /\ out[j].ax.projection = PlateCarree(0)
        /\ err = "none" =>
              /\ Cardinality(CallsOf({"imshow"})) = 1
              /\ Cardinality(CallsOf({OverlayFn})) = 1
              /\ Cardinality(CallsOf({"axes"})) = 1

\* Solution 3.1 has drawn the October temperatures over the image.
C12_Witness ==
    /\ last = "R_solution_3_1"
    /\ err = "none"
    /\ CallsOf({"pcolormesh"}) # {}
    /\ CallsOf({"imshow"}) # {}
    /\ ns["october_cube"].t = "cube"

\* The slices of a cube whose month_number is m.
SlicesOf(c, m) == {i \in 1..Len(c.months) : c.months[i] = m}

\* C13: october_cube holds exactly the October data: the cube loaded from the
\* dataset has the three months October, November and December, october_cube
\* keeps every slice of it whose month_number is 10 and no slice with another
\* month number, and every temperature plot (pcolormesh, contourf, solution
\* 3.1) draws october_cube and not the full cube.
C13_OctoberOnly ==
    /\ ns["cube"].t # "undef" => ns["cube"].months = <<10, 11, 12>>
    /\ ns["october_cube"].t # "undef" =>
          /\ ns["cube"].t = "cube"
          /\ ns["october_cube"].t = "cube"
          /\ \A i \in 1..Len(ns["october_cube"].months) :
                ns["october_cube"].months[i] = 10
          /\ Len(ns["october_cube"].months) = Cardinality(SlicesOf(ns["cube"], 10))
          /\ Len(ns["october_cube"].months) > 0
    /\ \A i \in CallsOf({"pcolormesh", "contourf"}) :
          /\ out[i].data.t = "cube"
          /\ out[i].data = ns["october_cube"]
          /\ out[i].data # ns["cube"]
          /\ SlicesOf(out[i].data, 11) = {} /\ SlicesOf(out[i].data, 12) = {}

\* The two October maps have been drawn.
C13_Witness ==
    /\ last = "R_october"
    /\ err = "none"
    /\ CallsOf({"pcolormesh"}) # {}
    /\ CallsOf({"contourf"}) # {}

RasterCells ==
    {"R_fname", "R_ncdump", "R_load_cube", "R_show_cube", "R_print_decade",
     "R_print_month_number", "R_print_time", "R_imports", "R_october", "R_native",
     "R_reproject", "R_solution_3_1", "R_solution_3_1_extension"}

MplCells ==
    {"M_import_ccrs", "M_platecarree", "M_import_plt", "M_coastlines", "M_subplots",
     "M_solution_2_1", "M_set_extent", "M_imread", "M_shapefile", "M_states_map",
     "M_nyh_platecarree", "M_nyh_stereo", "M_nyh_higher_res", "M_places_cell",
     "M_solution_2_2", "M_solution_2_3", "M_solution_2_4"}

Cells == IF book = "raster" THEN RasterCells ELSE MplCells

\* The trace of cell c run from state s.
TraceOf(c, s) ==
    CASE c = "R_fname" -> R_fname(s)
      [] c = "R_ncdump" -> R_ncdump(s)
      [] c = "R_load_cube" -> R_load_cube(s)
      [] c = "R_show_cube" -> R_show_cube(s)
      [] c = "R_print_decade" -> R_print_decade(s)
      [] c = "R_print_month_number" -> R_print_month_number(s)
      [] c = "R_print_time" -> R_print_time(s)
      [] c = "R_imports" -> R_imports(s)
      [] c = "R_october" -> R_october(s)
      [] c = "R_native" -> R_native(s)
      [] c = "R_reproject" -> R_reproject(s)
      [] c = "R_solution_3_1" -> R_solution_3_1(s)
      [] c = "R_solution_3_1_extension" -> R_solution_3_1_extension(s)
      [] c = "M_import_ccrs" -> M_import_ccrs(s)
      [] c = "M_platecarree" -> M_platecarree(s)
      [] c = "M_import_plt" -> M_import_plt(s)
      [] c = "M_coastlines" -> M_coastlines(s)
      [] c = "M_subplots" -> M_subplots(s)
      [] c = "M_solution_2_1" -> M_solution_2_1(s)
      [] c = "M_set_extent" -> M_set_extent(s)
      [] c = "M_imread" -> M_imread(s)
      [] c = "M_shapefile" -> M_shapefile(s)
      [] c = "M_states_map" -> M_states_map(s)
      [] c = "M_nyh_platecarree" -> M_nyh_platecarree(s)
      [] c = "M_nyh_stereo" -> M_nyh_stereo(s)
      [] c = "M_nyh_higher_res" -> M_nyh_higher_res(s)
      [] c = "M_places_cell" -> M_places_cell(s)
      [] c = "M_solution_2_2" -> M_solution_2_2(s)
      [] c = "M_solution_2_3" -> M_solution_2_3(s)
      [] c = "M_solution_2_4" -> M_solution_2_4(s)

\* The names a cell reads that it has not bound itself before the read: the
\* state it shares with the cells that ran before it.
Reads(c) ==
    CASE c \in {"R_fname", "R_imports", "M_import_ccrs", "M_shapefile", "M_places_cell"} -> {}
      [] c \in {"R_ncdump", "R_load_cube"} -> {"fname"}
      [] c \in {"R_show_cube", "R_print_decade", "R_print_month_number", "R_print_time"} ->
            {"cube"}
      [] c = "R_october" -> {"plt", "ccrs", "iplt", "iris", "cube"}
      [] c = "R_native" -> {"plt", "ccrs"}
      [] c = "R_reproject" -> {"plt", "ccrs", "fname", "extent", "rob"}
      [] c = "R_solution_3_1" ->
            {"plt", "ccrs", "iplt", "fname", "extent", "rob", "october_cube"}
      [] c = "R_solution_3_1_extension" -> {"plt", "ccrs", "img", "extent", "rob"}
      [] c \in {"M_platecarree", "M_import_plt"} -> {"ccrs"}
      [] c \in {"M_coastlines", "M_subplots", "M_solution_2_1", "M_set_extent",
                "M_solution_2_3", "M_solution_2_4"} -> {"plt", "ccrs"}
      [] c = "M_imread" -> {"plt"}
      [] c = "M_states_map" -> {"plt", "ccrs", "img", "geometries"}
      [] c = "M_nyh_platecarree" -> {"plt", "ccrs"}
      [] c = "M_nyh_stereo" ->
            {"plt", "ccrs", "cartopy", "new_york", "honolulu", "new_york_to_honolulu"}
      [] c = "M_nyh_higher_res" ->
            {"plt", "ccrs", "cartopy", "new_york", "honolulu", "new_york_to_honolulu"}
      [] c = "M_solution_2_2" -> {"plt", "ccrs", "places"}

\* The session's state with only the names of `keep` bound, no current axes.
Isolated(keep) ==
    [Start EXCEPT !.ns = [x \in Names |-> IF x \in keep THEN ns[x] ELSE Undef],
                  !.gca = NoArg]

LastOf(trace) == trace[Len(trace)]

\* Cell c does the same from state s as from state i, in which fewer names
\* are bound: it issues the same calls, ends with the same error and leaves
\* the same current axes and the same bindings (what it leaves alone keeps
\* the value of the state it started in).
SameResult(c, s, i) ==
    LET a == LastOf(TraceOf(c, s))
        b == LastOf(TraceOf(c, i))
    IN  /\ a.out = b.out
        /\ a.err = b.err
        /\ a.gca = b.gca \/ (b.gca = i.gca /\ a.gca = s.gca)
        /\ \A x \in Names :
              a.ns[x] = b.ns[x] \/ (b.ns[x] = i.ns[x] /\ a.ns[x] = s.ns[x])

\* C14 as claimed: the operations share no mutable state: no variable that
\* one cell reads is assigned or rebound by another, so the result of a cell
\* does not depend on which other cells ran before it: it is the result the
\* cell gives in a fresh kernel.
C14_NoSharedState ==
    \A c \in Cells : SameResult(c, Start, Isolated({}))

\* C14 amended: the cells share the kernel's namespace, which other cells
\* bind and rebind (fname is bound to the NetCDF path by the first cell and
\* rebound to the PNG path by the native plot cell), and the result of a
\* cell depends on the cells that ran before it only through the values of
\* the names it reads without binding them first (Reads): its calls, its
\* error, the current axes it leaves and the names it binds are those it
\* gives in a kernel where only these names are bound, to the same values.
C14_SharedThroughNamesRead ==
    /\ \A c \in Cells : SameResult(c, Start, Isolated(Reads(c)))
    /\ ns["fname"].t # "undef" => ns["fname"] \in {Str(NcPath), Str(WikiPngFar)}
    /\ ns["fname"] = Str(WikiPngFar) => ns["rob"].t = "crs"

\* The native plot cell has rebound fname to the PNG path, and
\* iris.load_cube(fname), run after it, has raised.
C14_Witness ==
    /\ last = "R_load_cube"
    /\ err # "none"
    /\ ns["fname"] = Str("../../resources/640px-Around_the_World_in_Eighty_Days_map.png")
    /\ "../../resources/HadCRUT/fogg_mean_surface_temp.nc" \in files
    /\ "../../resources/640px-Around_the_World_in_Eighty_Days_map.png" \in files

\* The names the cells bind to a CRS, an image or an extent.
ValueNames == {"extent", "rob", "img", "pc_180", "ny_stereo"}

\* Cell c gives the same result when the names of `gone` are unbound at its
\* start: it uses no value the cells before it left under these names.
Without(c, gone) == SameResult(c, Start, Isolated(Names \ gone))

\* C15 as claimed: CRS, image and extent values are transient: each is
\* created, used and discarded within one cell, so no cell or solution uses
\* a CRS, image or extent that a different cell created: every cell gives
\* the same result when these values are discarded before it starts.
C15_ValuesTransient ==
    \A c \in Cells : Without(c, ValueNames)

\* The extent, CRS and image a cell takes over from the cells before it.
OthersValues(c) ==
    CASE c \in {"R_reproject", "R_solution_3_1"} -> {"extent", "rob"}
      [] c = "R_solution_3_1_extension" -> {"extent", "rob", "img"}
      [] c = "M_states_map" -> {"img"}
      [] OTHER -> {}

\* C15 amended: the extent, the CRS rob and the image img outlive the cell
\* that creates them, as names of the kernel's namespace, and later cells
\* use them: the reprojection cell and solution 3.1 pass imshow the extent
\* and the rob that the native plot cell left, the solution of the 3.1
\* extension also its img, and the states map of the second notebook the img
\* of an earlier cell; these cells create none of them.  Every other
\* CRS, image and extent is used only by the cell that creates it.
C15_ValuesOutliveTheirCell ==
    \A c \in Cells :
        /\ Without(c, ValueNames \ OthersValues(c))
        /\ OthersValues(c) # {} =>
            LET r == LastOf(TraceOf(c, Start)) IN
            /\ \A x \in OthersValues(c) : r.ns[x] = ns[x]
            /\ \A i \in 1..Len(r.out) : r.out[i].fn = "imshow" =>
                  /\ "extent" \in OthersValues(c) => r.out[i].extent = ns["extent"]
                  /\ "rob" \in OthersValues(c) => r.out[i].transform = ns["rob"]
                  /\ "img" \in OthersValues(c) => r.out[i].data = ns["img"]
                  /\ \A x \in OthersValues(c) : ns[x].t # "undef"

\* The solution of the 3.1 extension has shown the img, with the extent and
\* the rob, that another cell created.
C15_Witness ==
    /\ last = "R_solution_3_1_extension"
    /\ err = "none"
    /\ \E i \in CallsOf({"imshow"}) :
          /\ out[i].data = ns["img"] /\ ns["img"].t = "image"
          /\ out[i].extent = ns["extent"] /\ ns["extent"].t = "list"
          /\ out[i].transform = ns["rob"] /\ ns["rob"].t = "crs"

\* The cells that end with plt.show().
ShowLast ==
    {"R_october", "R_native", "R_reproject", "R_solution_3_1",
     "R_solution_3_1_extension", "M_solution_2_1"}

\* C17: the repository has no error handling of its own: no cell or solution
\* catches, retries or recovers from an error, so an error raised by a
\* library call ends its cell at that statement: in every cell, run from
\* any state of the session, the state after the statement that raises is
\* the state after every later statement (no further call, no further
\* binding, the same error).  In particular the cell reading the two image
\* paths ends with an error and without its plt.show() when one of the images
\* is missing, and the shapefile cell ends with the error of fiona.open and
\* binds no geometries when the shapefile is missing.
C17_ErrorEndsCell ==
    /\ \A c \in Cells :
          LET tr == TraceOf(c, Start) IN
          \A k \in 1..(Len(tr) - 1) : tr[k].err # "none" => tr[k + 1] = tr[k]
    /\ (last \in ShowLast /\ err # "none") => CallsOf({"show"}) = {}
    /\ (last = "R_native" /\ ~({WikiPngNear, WikiPngFar} \subseteq files)) =>
          /\ err \in {"NameError", "FileNotFoundError"}
          /\ Cardinality(CallsOf({"imshow"})) <= 1
          /\ err = "FileNotFoundError" =>
                out[Len(out)].fn \in {"coastlines"}
    /\ (last = "M_shapefile" /\ StatesShp \notin files) =>
          /\ err = "DriverError"
          /\ CallsOf({"fiona.open"}) = {}
    /\ StatesShp \notin files => ns["geometries"].t = "undef"

\* The second image of the native plot cell is missing: the first map was
\* drawn, the cell ended at the second imread.
C17_Witness ==
    /\ last = "R_native"
    /\ err = "FileNotFoundError"
    /\ Cardinality(CallsOf({"imshow"})) = 1
    /\ CallsOf({"show"}) = {}
    /\ ns["fname"] = Str(WikiPngFar)

\* Valid central longitudes and latitudes (1e-4 degree): the ends of the
\* ranges, zero and New York.
SomeLongitudes == {-1800000, -740060, 0, 1800000}
SomeLatitudes == {-900000, 0, 407128, 900000}

\* hr is st with the threshold divided by 10 and nothing else changed.
TenTimesFiner(hr, st) ==
    /\ 10 * threshold(hr).num * threshold(st).den = threshold(st).num * threshold(hr).den
    /\ threshold(hr).den > 0
    /\ hr.central_longitude = st.central_longitude
    /\ hr.central_latitude = st.central_latitude
    /\ [hr EXCEPT !.class = "Stereographic"] = st

\* C18: HigherResStereo gives the interpolation ten times more fidelity:
\* once the class is defined, for every valid central longitude and latitude
\* the threshold of a HigherResStereo instance is the threshold of the
\* ccrs.Stereographic with the same parameters divided by 10, and nothing
\* else differs (same projection parameters); so it is for the instance the
\* notebook builds from New York's coordinates and draws on.
C18_ThresholdTenth ==
    ns["HigherResStereo"].t = "class" =>
        /\ \A lon \in SomeLongitudes, lat \in SomeLatitudes :
              TenTimesFiner(HigherResStereo(lon, lat), Stereographic(lon, lat))
        /\ \A i \in 1..Len(out) :
              (out[i].ax.t = "axes" /\ out[i].ax.projection.class = "HigherResStereo") =>
                  /\ TenTimesFiner(out[i].ax.projection,
                                   Stereographic(-740060, 407128))
                  /\ out[i].ax.projection = ns["ny_stereo"]

\* The two lines have been drawn on the axes of the HigherResStereo instance.
C18_Witness ==
    /\ last = "M_nyh_higher_res"
    /\ err = "none"
    /\ ns["ny_stereo"].class = "HigherResStereo"
    /\ \E i \in CallsOf({"plot"}) : out[i].ax.projection = ns["ny_stereo"]

====
